---- MODULE Spec2Model ----
(***************************************************************************)
(* emomo crawler: the staging area (staging.py) and the fabiaoqing crawl   *)
(* loop (sources/fabiaoqing.py), as a state machine over the staging       *)
(* directory, the manifest file and one crawl invocation at a time.        *)
(***************************************************************************)
EXTENDS Integers, Sequences, FiniteSets, TLC

\* ------------------------------------------------------------------ bounds
\* distinct image URLs the site can list
NumUrls == 2
\* listing pages that can hold images; every later page is empty
LastPage == 2
\* <img> elements on one listing page
MaxPageLen == 2
\* largest limit a caller passes to crawl
MaxLimit == 2
\* crawl invocations in one behaviour
MaxRuns == 2
\* download threads of the pool (constructor argument, default 5)
Threads == 2
\* append_manifest and save_image calls in one behaviour
MaxWrites == 3

None == "None"

\* ------------------------------------------------------------ item model
Urls == 1..NumUrls

\* The extension found in the URL text (the site serves gif/png/webp/jpg).
UrlExt(url) ==
    CASE url % 4 = 1 -> ".gif"
      [] url % 4 = 2 -> ".jpg"
      [] url % 4 = 3 -> ".png"
      [] OTHER       -> ".webp"

\* base.generate_id_from_url: md5(url).hexdigest()[:16]; a deterministic
\* digest of the URL.  The spec accepts the collision probability, so the
\* stand-in digest is collision free on the URLs of the model.
generate_id_from_url(url) == (url * 37) % 101

\* base.detect_format(url): first matching extension, gif > png > webp > jpg,
\* default jpg (the crawler passes no content type).
detect_format(url) ==
    IF UrlExt(url) = ".gif" THEN "gif"
    ELSE IF UrlExt(url) = ".png" THEN "png"
    ELSE IF UrlExt(url) = ".webp" THEN "webp"
    ELSE "jpg"

\* The alt text of the <img> that carries the URL, as its list of words.
ImgAlt(url) == IF url % 2 = 1 THEN <<"xiongmaotou", "kaixin">> ELSE <<>>

\* FabiaoqingCrawler._extract_category: the known category found in the alt
\* text (category names are written in pinyin), None when there is none.
_extract_category(alt) ==
    IF alt # <<>> /\ alt[1] \in {"xiongmaotou", "mogutou", "jinguanzhang", "biaoqingbao"}
    THEN alt[1] ELSE None

\* FabiaoqingCrawler._extract_tags: the words of the alt text, at most 5.
_extract_tags(alt) == SubSeq(alt, 1, IF Len(alt) < 5 THEN Len(alt) ELSE 5)

\* MemeItem built by _parse_images for one <img>.
MemeItem(url) ==
    [id          |-> generate_id_from_url(url),
     image_url   |-> url,
     category    |-> IF _extract_category(ImgAlt(url)) = None
                     THEN "biaoqingbao" ELSE _extract_category(ImgAlt(url)),
     tags        |-> _extract_tags(ImgAlt(url)),
     is_animated |-> detect_format(url) = "gif",
     format      |-> detect_format(url)]

\* f"{item.id}.{item.format}"
FileName(id, format) == <<id, format>>

\* staging.create_staging_item: the StagingItem, stamped with the time now.
create_staging_item(item_id, filename, category, tags, source_url, is_animated, format, now) ==
    [id          |-> item_id,
     filename    |-> filename,
     category    |-> category,
     tags        |-> tags,
     source_url  |-> source_url,
     is_animated |-> is_animated,
     format      |-> format,
     crawled_at  |-> now]

\* ------------------------------------------------------ manifest encoding
\* A manifest file is a sequence of tokens: one JSON object per line is
\* "{", the eight key/value pairs, "}", and the line ends with "\n".
LBrace  == <<"{", "">>
RBrace  == <<"}", "">>
NewLine == <<"\n", "">>

FieldKeys ==
    <<"id", "filename", "category", "tags", "source_url", "is_animated",
      "format", "crawled_at">>

\* json.dumps(item.to_dict(), ensure_ascii=False)
JsonDumps(item) ==
    <<LBrace,
      <<"id", item.id>>, <<"filename", item.filename>>,
      <<"category", item.category>>, <<"tags", item.tags>>,
      <<"source_url", item.source_url>>,
      <<"is_animated", item.is_animated>>, <<"format", item.format>>,
      <<"crawled_at", item.crawled_at>>,
      RBrace>>

\* The line append_manifest and crawl write: the JSON text and "\n".
ManifestLine(item) == Append(JsonDumps(item), NewLine)

\* Tokens of one complete manifest line
LineLen == Len(FieldKeys) + 3

\* Where an interrupted write of a line stops: before the first token, after
\* the brace, in the middle of the object, before the "\n"
CutPoints == {0, 1, LineLen \div 2, LineLen - 1}

\* json.loads(line) succeeds and StagingItem.from_dict accepts the keys:
\* the line is exactly one object with the eight fields.
Parses(line) ==
    /\ Len(line) = Len(FieldKeys) + 2
    /\ line[1][1] = "{"
    /\ line[Len(line)][1] = "}"
    /\ \A k \in 1..Len(FieldKeys) : line[k + 1][1] = FieldKeys[k]

\* StagingItem.from_dict(json.loads(line)) of a line that parses
from_dict(line) ==
    [id          |-> line[2][2],
     filename    |-> line[3][2],
     category    |-> line[4][2],
     tags        |-> line[5][2],
     source_url  |-> line[6][2],
     is_animated |-> line[7][2],
     format      |-> line[8][2],
     crawled_at  |-> line[9][2]]

\* Position of the first "\n" of data, 0 when there is none
RECURSIVE FirstNewLine(_, _)
FirstNewLine(data, k) ==
    IF k > Len(data) THEN 0
    ELSE IF data[k][1] = "\n" THEN k
    ELSE FirstNewLine(data, k + 1)

\* `for line in f`: the lines of the file, each without its "\n"; text after
\* the last "\n" is a last line.
RECURSIVE FileLines(_)
FileLines(data) ==
    IF data = <<>> THEN <<>>
    ELSE LET n == FirstNewLine(data, 1) IN
         IF n = 0 THEN <<data>>
         ELSE <<SubSeq(data, 1, n - 1)>> \o FileLines(SubSeq(data, n + 1, Len(data)))

\* A file on disk: absent, or its content
NoFile == [exists |-> FALSE, data |-> <<>>]
FileOf(data) == [exists |-> TRUE, data |-> data]

Raised == [ok |-> FALSE, items |-> <<>>]
Returned(items) == [ok |-> TRUE, items |-> items]

\* The loop of read_manifest over the lines: a blank line is skipped, a line
\* json.loads rejects raises out of the loop.
RECURSIVE ReadLines(_, _)
ReadLines(lines, items) ==
    IF lines = <<>> THEN Returned(items)
    ELSE IF Head(lines) = <<>> THEN ReadLines(Tail(lines), items)
    ELSE IF ~Parses(Head(lines)) THEN Raised
    ELSE ReadLines(Tail(lines), Append(items, from_dict(Head(lines))))

\* StagingManager.read_manifest on the manifest file of a source
read_manifest(file) ==
    IF ~file.exists THEN Returned(<<>>)
    ELSE ReadLines(FileLines(file.data), <<>>)

\* get_existing_ids that forgets the manifest
get_existing_ids_unseeded(file) == {}

\* StagingManager.get_existing_ids (only called when read_manifest returns)
get_existing_ids(file) ==
    {read_manifest(file).items[k].id : k \in 1..Len(read_manifest(file).items)}

\* ------------------------------------------------------------- cursors
\* A cursor is the text the caller passes: a sequence of characters.
Digits == <<"0", "1", "2", "3", "4", "5", "6", "7", "8", "9">>

DigitVal(c) == CHOOSE d \in 0..9 : Digits[d + 1] = c

\* int(cursor) raises ValueError unless the text is a decimal number
IsInt(text) ==
    /\ text # <<>>
    /\ \A k \in 1..Len(text) : \E d \in 1..10 : Digits[d] = text[k]

\* int(cursor)
RECURSIVE IntOf(_)
IntOf(text) ==
    IF text = <<>> THEN 0
    ELSE 10 * IntOf(SubSeq(text, 1, Len(text) - 1)) + DigitVal(text[Len(text)])

\* str(current_page), for a page number >= 0
RECURSIVE StrOf(_)
StrOf(n) ==
    IF n < 10 THEN <<Digits[n + 1]>>
    ELSE Append(StrOf(n \div 10), Digits[(n % 10) + 1])

\* `if cursor`: None and the empty string are falsy
Truthy(cursor) == cursor # <<None>> /\ cursor # <<>>

NoCursor == <<None>>

\* ------------------------------------------------------------- adapter
\* _parse_images: the MemeItems of a page's <img> URLs, a URL already in
\* found_urls skipped.
RECURSIVE ParseFrom(_, _)
ParseFrom(srcs, found_urls) ==
    IF srcs = <<>> THEN <<>>
    ELSE IF Head(srcs) \in found_urls THEN ParseFrom(Tail(srcs), found_urls)
    ELSE <<MemeItem(Head(srcs))>> \o ParseFrom(Tail(srcs), found_urls \cup {Head(srcs)})

_parse_images(html) == ParseFrom(html, {})

\* The <img> URL lists a listing page can hold
Listings == UNION {[1..n -> Urls] : n \in 0..MaxPageLen}

\* What _get_page returns for a page: None on a request failure, else the
\* page; a page after LastPage has no image.
PageOutcomes(page) ==
    {[ok |-> FALSE, html |-> <<>>]}
    \cup {[ok |-> TRUE, html |-> h] :
            h \in IF page \in 1..LastPage THEN Listings ELSE {<<>>}}

\* new_items = [i for i in items if i.id not in existing_ids]
RECURSIVE NewItems(_, _)
NewItems(items, ids) ==
    IF items = <<>> THEN <<>>
    ELSE IF Head(items).id \in ids THEN NewItems(Tail(items), ids)
    ELSE <<Head(items)>> \o NewItems(Tail(items), ids)

\* The loop that inserts nothing into existing_ids
AddIdsSkipped(ids, new_items) == ids

\* existing_ids after `for item in new_items: existing_ids.add(item.id)`
AddIds(ids, new_items) == ids \cup {new_items[k].id : k \in 1..Len(new_items)}

\* The slice that keeps every item
TruncateNothing(items, lim) == items

\* all_items[:limit]
Truncate(items, lim) == SubSeq(items, 1, IF Len(items) < lim THEN Len(items) ELSE lim)

\* A next_cursor that names the page after current_page
NextCursorSkipping(crawled, page) == IF crawled > 0 THEN StrOf(page + 1) ELSE NoCursor

\* A next_cursor returned whatever was crawled
NextCursorAlways(crawled, page) == StrOf(page)

\* next_cursor = str(current_page) if items_crawled > 0 else None
NextCursor(crawled, page) == IF crawled > 0 THEN StrOf(page) ELSE NoCursor

\* `if not result` that takes every finished future for a result
HasResultAlways(future) == future.done

\* `if not result`: process_item returned (item, data), not None
HasResult(future) == future.done /\ future.size > 0

\* -------------------------------------------------------------- stats
\* dict[key] = dict.get(key, 0) + 1
Bump(dict, key) ==
    [k \in DOMAIN dict \cup {key} |->
        (IF k \in DOMAIN dict THEN dict[k] ELSE 0) + (IF k = key THEN 1 ELSE 0)]

EmptyDict == [k \in {} |-> 0]

\* image_path.exists()
FileExists(files, name) == \E f \in files : f[1] = name

\* image_path.stat().st_size
FileSize(files, name) == (CHOOSE f \in files : f[1] = name)[2]

NoStats ==
    [total_images |-> 0, total_size_bytes |-> 0,
     categories |-> EmptyDict, formats |-> EmptyDict]

\* The loop of get_stats over the items of the manifest
RECURSIVE StatsLoop(_, _, _)
StatsLoop(items, files, acc) ==
    IF items = <<>> THEN acc
    ELSE LET item == Head(items) IN
         StatsLoop(Tail(items), files,
            [total_images     |-> acc.total_images + 1,
             total_size_bytes |-> acc.total_size_bytes
                                  + (IF FileExists(files, item.filename)
                                     THEN FileSize(files, item.filename) ELSE 0),
             categories       |-> Bump(acc.categories, item.category),
             formats          |-> Bump(acc.formats, item.format)])

\* get_stats that leaves out the items whose image file is missing
RECURSIVE WithFile(_, _)
WithFile(items, files) ==
    IF items = <<>> THEN <<>>
    ELSE IF FileExists(files, Head(items).filename)
    THEN <<Head(items)>> \o WithFile(Tail(items), files)
    ELSE WithFile(Tail(items), files)

get_stats_present(items, files) == StatsLoop(WithFile(items, files), files, NoStats)

\* StagingManager.get_stats, given that read_manifest returned items
get_stats(items, files) == StatsLoop(items, files, NoStats)

\* --------------------------------------------------------------- state
Sources == {"fabiaoqing", "demo"}

\* FabiaoqingCrawler.source_id
source_id == "fabiaoqing"

VARIABLES
    dirs,           \* the sources whose directory (with images/) exists
    manifest,       \* per source: the manifest.jsonl file
    images,         \* per source: the files of images/, as <<name, size>>
    pc,             \* where the crawl invocation stands
    limit,          \* crawl's limit argument
    start_page,     \* int(cursor), or 1
    existing_ids,   \* the in-memory id set
    seed_ids,       \* existing_ids as get_existing_ids returned it
    seed_manifest,  \* the manifest and images when the invocation started
    current_page,
    page_log,       \* the pages requested this run, by outcome: items, empty, failed
    candidates,     \* ids of the candidates _parse_images returned this run
    all_items,
    futures,        \* per submitted item: done, and the size of the data (0: None)
    processed,      \* futures as_completed has yielded
    cur,            \* the future whose result the loop body holds
    items_crawled,
    ret,            \* the value crawl returned
    runs,           \* invocations started
    appends,        \* append_manifest and save_image calls made
    last,           \* the latest call of a StagingManager reader and its result
    failed_ids      \* ids whose download failed in an earlier invocation, as a
                    \* caller that watches for retries has noted them

vars ==
    <<dirs, manifest, images, pc, limit, start_page, existing_ids, seed_ids,
      seed_manifest, current_page, page_log, candidates, all_items, futures,
      processed, cur, items_crawled, ret, runs, appends, last, failed_ids>>

fsvars == <<dirs, manifest, images>>

\* The log of a run that requested no page yet
NoPages == [items |-> {}, empty |-> {}, failed |-> {}]

\* The log of the run with the outcome of one more page
Logged(log, page_no, page, items) ==
    IF ~page.ok THEN [log EXCEPT !.failed = @ \cup {page_no}]
    ELSE IF items = <<>> THEN [log EXCEPT !.empty = @ \cup {page_no}]
    ELSE [log EXCEPT !.items = @ \cup {page_no}]

NoCall ==
    [op |-> "none", src |-> "", ok |-> TRUE, found |-> FALSE, items |-> <<>>,
     stats |-> NoStats, sources |-> {}]

NoReturn == [items_crawled |-> 0, next_cursor |-> NoCursor]

Init ==
    /\ dirs = {}
    /\ manifest = [s \in Sources |-> NoFile]
    /\ images = [s \in Sources |-> {}]
    /\ pc = "idle"
    /\ limit = 0
    /\ start_page = 1
    /\ existing_ids = {}
    /\ seed_ids = {}
    /\ seed_manifest = [file |-> NoFile, files |-> {}]
    /\ current_page = 1
    /\ page_log = NoPages
    /\ candidates = {}
    /\ all_items = <<>>
    /\ futures = <<>>
    /\ processed = {}
    /\ cur = 0
    /\ items_crawled = 0
    /\ ret = NoReturn
    /\ runs = 0
    /\ appends = 0
    /\ last = NoCall
    /\ failed_ids = {}

\* No crawl invocation is executing
Quiet == pc \in {"idle", "done", "aborted", "killed"}

\* The crawl process is gone, and its locals with it
NoLocals ==
    /\ limit' = 0
    /\ start_page' = 1
    /\ existing_ids' = {}
    /\ seed_ids' = {}
    /\ seed_manifest' = [file |-> NoFile, files |-> {}]
    /\ current_page' = 1
    /\ page_log' = NoPages
    /\ candidates' = {}
    /\ all_items' = <<>>
    /\ futures' = <<>>
    /\ processed' = {}
    /\ cur' = 0
    /\ items_crawled' = 0
    /\ ret' = NoReturn

Exited == pc' = "idle" /\ NoLocals /\ UNCHANGED runs

\* ------------------------------------------------------------- crawl
\* The cursors a caller passes: none, the empty text, page numbers (one
\* written with a leading zero), and a text that is no number.
CursorInputs ==
    {NoCursor, <<>>, <<"x">>, <<"0", "2">>} \cup {StrOf(p) : p \in 1..LastPage + 1}

\* The fresh locals of an invocation
StartLocals(lim, page, ids) ==
    /\ limit' = lim
    /\ start_page' = page
    /\ current_page' = page
    /\ existing_ids' = ids
    /\ seed_ids' = ids
    /\ seed_manifest' = [file |-> manifest[source_id], files |-> images[source_id]]
    /\ page_log' = NoPages
    /\ candidates' = {}
    /\ all_items' = <<>>
    /\ futures' = <<>>
    /\ processed' = {}
    /\ cur' = 0
    /\ items_crawled' = 0
    /\ ret' = NoReturn

\* crawl(staging, limit, cursor) up to the while loop: get_existing_ids and
\* int(cursor); an exception of either leaves crawl.
Begin(lim, cursor) ==
    /\ runs' = runs + 1
    /\ last' = NoCall
    /\ UNCHANGED <<fsvars, appends>>
    /\ IF ~read_manifest(manifest[source_id]).ok
       THEN /\ pc' = "aborted"
            /\ StartLocals(lim, 1, {})
       ELSE IF Truthy(cursor) /\ ~IsInt(cursor)
       THEN /\ pc' = "aborted"
            /\ StartLocals(lim, 1, get_existing_ids(manifest[source_id]))
       ELSE /\ pc' = "fetch"
            /\ StartLocals(lim, IF Truthy(cursor) THEN IntOf(cursor) ELSE 1,
                           get_existing_ids(manifest[source_id]))

\* The crawl command: one invocation at a time, with any limit and cursor
CrawlStart(lim, cursor) ==
    /\ Quiet
    /\ runs < MaxRuns
    /\ Begin(lim, cursor)
    /\ UNCHANGED failed_ids

\* The futures whose download returned None
Failed == {i \in 1..Len(futures) : futures[i].done /\ futures[i].size = 0}

\* A caller that invokes crawl again after an invocation has returned, with
\* any cursor, and keeps a note of the ids whose download failed
RetryStart(lim, cursor) ==
    /\ pc \in {"idle", "done"}
    /\ runs < MaxRuns
    /\ failed_ids' = failed_ids \cup {futures[i].item.id : i \in Failed}
    /\ Begin(lim, cursor)

\* Invocations a caller chains: the site has LastPage pages with images
MaxChain == LastPage + 3

\* A caller that starts with any cursor and then re-invokes crawl with the
\* cursor the previous invocation returned, for as long as one is returned
ChainStart(lim, cursor) ==
    /\ runs < MaxChain
    /\ \/ pc = "idle"
       \/ pc = "done" /\ ret.next_cursor # NoCursor /\ cursor = ret.next_cursor
    /\ Begin(lim, cursor)
    /\ UNCHANGED failed_ids

\* A download phase that submits nothing
SubmitNothing(items) == <<>>

\* items_to_download = all_items[:limit], each submitted to the executor
Submit(items) ==
    [k \in 1..Len(Truncate(items, limit)) |->
        [item |-> Truncate(items, limit)[k], done |-> FALSE, size |-> 0]]

\* A page counter that skips a page
NextPageSkipping(page) == page + 2

\* current_page += 1
NextPage(page) == page + 1

\* One pass of the while loop: fetch current_page, parse, filter, extend;
\* a failed fetch or a page without images breaks out to the download phase.
FetchPage ==
    /\ pc = "fetch"
    /\ Len(all_items) < limit
    /\ \E page \in PageOutcomes(current_page) :
         LET items == _parse_images(page.html)
             new_items == NewItems(items, existing_ids)
         IN  IF ~page.ok \/ items = <<>>
             THEN /\ page_log' = Logged(page_log, current_page, page, items)
                  /\ futures' = Submit(all_items)
                  /\ pc' = "wait"
                  /\ UNCHANGED <<existing_ids, all_items, current_page, candidates>>
             ELSE /\ page_log' = Logged(page_log, current_page, page, items)
                  /\ existing_ids' = AddIds(existing_ids, new_items)
                  /\ all_items' = all_items \o new_items
                  /\ candidates' = candidates \cup {items[k].id : k \in 1..Len(items)}
                  /\ current_page' = NextPage(current_page)
                  /\ UNCHANGED <<futures, pc>>
    /\ UNCHANGED <<fsvars, limit, start_page, seed_ids, seed_manifest, processed,
                   cur, items_crawled, ret, runs, appends, last, failed_ids>>

\* The while condition fails: len(all_items) >= limit
LoopExit ==
    /\ pc = "fetch"
    /\ ~(Len(all_items) < limit)
    /\ futures' = Submit(all_items)
    /\ pc' = "wait"
    /\ UNCHANGED <<fsvars, limit, start_page, existing_ids, seed_ids, seed_manifest,
                   current_page, page_log, candidates, all_items, processed, cur,
                   items_crawled, ret, runs, appends, last, failed_ids>>

\* The number of bytes the site serves for an image URL
BodySize(url) == url

\* The pool is alive while the coordinating thread is in the with block
InPool == pc \in {"wait", "save", "append"}

\* Futures are started in submission order, at most Threads at a time
MayRun(i) == Cardinality({j \in 1..(i - 1) : ~futures[j].done}) < Threads

\* A worker that counts the item itself when its download returned data
DownloadCounting(i) ==
    /\ InPool
    /\ i \in 1..Len(futures)
    /\ ~futures[i].done
    /\ MayRun(i)
    /\ \E size \in {0, BodySize(futures[i].item.image_url)} :
         /\ futures' = [futures EXCEPT ![i] = [@ EXCEPT !.done = TRUE, !.size = size]]
         /\ items_crawled' = items_crawled + (IF size > 0 THEN 1 ELSE 0)
    /\ UNCHANGED <<fsvars, pc, limit, start_page, existing_ids, seed_ids, seed_manifest,
                   current_page, page_log, candidates, all_items, processed, cur,
                   ret, runs, appends, last, failed_ids>>

\* A worker finishes process_item for future i.  It returns None (size 0)
\* when _download_image caught an exception or the response body is empty
\* (`if not data`), else the item with the bytes of the body.
Download(i) ==
    /\ InPool
    /\ i \in 1..Len(futures)
    /\ ~futures[i].done
    /\ MayRun(i)
    /\ \E size \in {0, BodySize(futures[i].item.image_url)} :
         futures' = [futures EXCEPT ![i] = [@ EXCEPT !.done = TRUE, !.size = size]]
    /\ UNCHANGED <<fsvars, pc, limit, start_page, existing_ids, seed_ids, seed_manifest,
                   current_page, page_log, candidates, all_items, processed, cur,
                   items_crawled, ret, runs, appends, last, failed_ids>>

\* as_completed yields a finished future; `if not result: continue`
TakeResult(i) ==
    /\ pc = "wait"
    /\ i \in 1..Len(futures)
    /\ futures[i].done
    /\ i \notin processed
    /\ processed' = processed \cup {i}
    /\ IF HasResult(futures[i])
       THEN pc' = "save" /\ cur' = i
       ELSE UNCHANGED <<pc, cur>>
    /\ UNCHANGED <<fsvars, limit, start_page, existing_ids, seed_ids, seed_manifest,
                   current_page, page_log, candidates, all_items, futures,
                   items_crawled, ret, runs, appends, last, failed_ids>>

\* A write that leaves the directory as it was
WriteNothing(files, name, size) == files

\* open(file_path, "wb").write(data): the file is created or replaced
WriteFile(files, name, size) == {f \in files : f[1] # name} \cup {<<name, size>>}

\* images_path.mkdir(parents=True, exist_ok=True); write the image file
SaveImageFile ==
    /\ pc = "save"
    /\ dirs' = dirs \cup {source_id}
    /\ images' = [images EXCEPT ![source_id] =
                    WriteFile(@, FileName(futures[cur].item.id, futures[cur].item.format),
                              futures[cur].size)]
    /\ pc' = "append"
    /\ UNCHANGED <<manifest, limit, start_page, existing_ids, seed_ids, seed_manifest,
                   current_page, page_log, candidates, all_items, futures, processed,
                   cur, items_crawled, ret, runs, appends, last, failed_ids>>

\* datetime.now(): later in a later invocation, and later after each append
Now == runs * (MaxLimit + 1) + items_crawled

\* The StagingItem the loop body builds for the item it holds
StagedItem(item, now) ==
    create_staging_item(item.id, FileName(item.id, item.format), item.category,
                        item.tags, item.image_url, item.is_animated, item.format, now)

\* A write that puts the text before the content of the file
PrependText(file, text) == FileOf(text \o file.data)

\* open(path, "w").write(text): the file is replaced
OverwriteText(file, text) == FileOf(text)

\* open(path, "a").write(text): the file is created when absent
AppendText(file, text) == FileOf(file.data \o text)

\* The counter after an append that is not counted
CountSkipped(n) == n

\* items_crawled += 1
Count(n) == n + 1

\* Append the line to the manifest; items_crawled += 1
AppendRecord ==
    /\ pc = "append"
    /\ manifest' = [manifest EXCEPT ![source_id] =
                      AppendText(@, ManifestLine(StagedItem(futures[cur].item, Now)))]
    /\ items_crawled' = Count(items_crawled)
    /\ pc' = "wait"
    /\ UNCHANGED <<dirs, images, limit, start_page, existing_ids, seed_ids,
                   seed_manifest, current_page, page_log, candidates, all_items,
                   futures, processed, cur, ret, runs, appends, last, failed_ids>>

\* The futures whose download returned data
Succeeded == {i \in 1..Len(futures) : futures[i].done /\ futures[i].size > 0}

\* A loop over as_completed that a None result ends (break, not continue)
ExhaustedOnFailure ==
    processed = 1..Len(futures) \/ \E i \in processed : ~HasResult(futures[i])

\* as_completed(futures) has yielded every future
Exhausted == processed = 1..Len(futures)

\* Every future was yielded: return (items_crawled, next_cursor)
Return ==
    /\ pc = "wait"
    /\ Exhausted
    /\ ret' = [items_crawled |-> items_crawled,
               next_cursor |-> NextCursor(items_crawled, current_page)]
    /\ pc' = "done"
    /\ UNCHANGED <<fsvars, limit, start_page, existing_ids, seed_ids, seed_manifest,
                   current_page, page_log, candidates, all_items, futures, processed,
                   cur, items_crawled, runs, appends, last, failed_ids>>

\* The process is killed while crawl runs; a kill during the manifest write
\* leaves the first cut tokens of the line in the file.
Kill ==
    /\ ~Quiet
    /\ pc' = "killed"
    /\ IF pc = "append"
       THEN \E cut \in CutPoints :
              manifest' = [manifest EXCEPT ![source_id] =
                 AppendText(@, SubSeq(ManifestLine(StagedItem(futures[cur].item, Now)), 1, cut))]
       ELSE UNCHANGED manifest
    /\ NoLocals
    /\ UNCHANGED <<dirs, images, runs, appends, last, failed_ids>>

\* ------------------------------------------------- staging operations
\* The staging commands and the StagingManager calls run between crawl
\* invocations (one process at a time uses a staging directory).

\* read_manifest(source_id), as the caller sees it
ReadManifestCall(s) ==
    /\ Quiet
    /\ last' = [NoCall EXCEPT !.op = "read_manifest", !.src = s,
                              !.ok = read_manifest(manifest[s]).ok,
                              !.items = read_manifest(manifest[s]).items]
    /\ Exited
    /\ UNCHANGED <<fsvars, appends, failed_ids>>

\* get_stats(source_id): read_manifest, then the loop over the items
GetStatsCall(s) ==
    /\ Quiet
    /\ last' = IF read_manifest(manifest[s]).ok
               THEN [NoCall EXCEPT !.op = "get_stats", !.src = s,
                        !.stats = get_stats(read_manifest(manifest[s]).items, images[s])]
               ELSE [NoCall EXCEPT !.op = "get_stats", !.src = s, !.ok = FALSE]
    /\ Exited
    /\ UNCHANGED <<fsvars, appends, failed_ids>>

\* list_sources(): the directories that hold a manifest.jsonl
list_sources == {s \in dirs : manifest[s].exists}

ListSourcesCall ==
    /\ Quiet
    /\ last' = [NoCall EXCEPT !.op = "list_sources", !.sources = list_sources]
    /\ Exited
    /\ UNCHANGED <<fsvars, appends, failed_ids>>

\* A clean that removes the staging root when the source exists
CleanRoot(s) ==
    /\ Quiet
    /\ IF s \in dirs
       THEN /\ dirs' = {}
            /\ manifest' = [t \in Sources |-> NoFile]
            /\ images' = [t \in Sources |-> {}]
       ELSE UNCHANGED fsvars
    /\ last' = [NoCall EXCEPT !.op = "clean", !.src = s, !.found = s \in dirs]
    /\ Exited
    /\ UNCHANGED <<appends, failed_ids>>

\* clean(source_id): rmtree of the source directory when it exists
Clean(s) ==
    /\ Quiet
    /\ IF s \in dirs
       THEN /\ dirs' = dirs \ {s}
            /\ manifest' = [manifest EXCEPT ![s] = NoFile]
            /\ images' = [images EXCEPT ![s] = {}]
       ELSE UNCHANGED fsvars
    /\ last' = [NoCall EXCEPT !.op = "clean", !.src = s, !.found = s \in dirs]
    /\ Exited
    /\ UNCHANGED <<appends, failed_ids>>

\* clean_all(): rmtree of the staging root
CleanAll ==
    /\ Quiet
    /\ dirs' = {}
    /\ manifest' = [s \in Sources |-> NoFile]
    /\ images' = [s \in Sources |-> {}]
    /\ last' = [NoCall EXCEPT !.op = "clean_all"]
    /\ Exited
    /\ UNCHANGED <<appends, failed_ids>>

\* Someone deletes an image file of the staging directory by hand
DeleteImageFile(s) ==
    /\ Quiet
    /\ \E f \in images[s] : images' = [images EXCEPT ![s] = @ \ {f}]
    /\ last' = NoCall
    /\ Exited
    /\ UNCHANGED <<dirs, manifest, appends, failed_ids>>

\* The records a caller hands to append_manifest: any field values
SampleRecords ==
    {create_staging_item(37, FileName(37, "gif"), "xiongmaotou", <<"kaixin", "haha">>, 1, TRUE, "gif", 1),
     create_staging_item(37, FileName(37, "jpg"), "biaoqingbao", <<"haha", "kaixin">>, 2, FALSE, "jpg", 2),
     create_staging_item(74, FileName(74, "png"), "biaoqingbao", <<>>, 2, FALSE, "png", 1)}

\* append_manifest(source_id, item): ensure_directories, append the line
AppendManifest(s, item) ==
    /\ Quiet
    /\ appends < MaxWrites
    /\ appends' = appends + 1
    /\ dirs' = dirs \cup {s}
    /\ manifest' = [manifest EXCEPT ![s] = AppendText(@, ManifestLine(item))]
    /\ last' = [NoCall EXCEPT !.op = "append_manifest", !.src = s, !.items = <<item>>]
    /\ Exited
    /\ UNCHANGED <<images, failed_ids>>

\* append_manifest cut short by a crash: the first cut tokens are written
AppendInterrupted(s, item) ==
    /\ Quiet
    /\ appends < MaxWrites
    /\ appends' = appends + 1
    /\ dirs' = dirs \cup {s}
    /\ \E cut \in CutPoints :
         manifest' = [manifest EXCEPT ![s] = AppendText(@, SubSeq(ManifestLine(item), 1, cut))]
    /\ last' = NoCall
    /\ Exited
    /\ UNCHANGED <<images, failed_ids>>

\* save_image(source_id, item_id, image_data, format)
SaveImage(s, item_id, size, format) ==
    /\ Quiet
    /\ appends < MaxWrites
    /\ appends' = appends + 1
    /\ dirs' = dirs \cup {s}
    /\ images' = [images EXCEPT ![s] = WriteFile(@, FileName(item_id, format), size)]
    /\ last' = NoCall
    /\ Exited
    /\ UNCHANGED <<manifest, failed_ids>>

\* ------------------------------------------------------ specifications
\* The crawler and the staging commands around it
Next ==
    \/ \E lim \in 0..MaxLimit, cursor \in CursorInputs : CrawlStart(lim, cursor)
    \/ FetchPage
    \/ LoopExit
    \/ \E i \in 1..MaxLimit : Download(i)
    \/ \E i \in 1..MaxLimit : TakeResult(i)
    \/ SaveImageFile
    \/ AppendRecord
    \/ Return
    \/ Kill
    \/ Clean(source_id)
    \/ CleanAll

Spec == Init /\ [][Next]_vars

\* The StagingManager on its own, called with any source and any record
StoreNext ==
    \/ \E s \in Sources, item \in SampleRecords : AppendManifest(s, item)
    \/ \E s \in Sources, item \in SampleRecords : AppendInterrupted(s, item)
    \/ \E s \in Sources, item \in SampleRecords :
         SaveImage(s, item.id, BodySize(item.source_url), item.format)
    \/ \E s \in Sources : ReadManifestCall(s)
    \/ \E s \in Sources : GetStatsCall(s)
    \/ ListSourcesCall
    \/ \E s \in Sources : Clean(s)
    \/ CleanAll
    \/ \E s \in Sources : DeleteImageFile(s)

StoreSpec == Init /\ [][StoreNext]_vars

\* The steps of a running invocation
CrawlStep ==
    \/ FetchPage
    \/ LoopExit
    \/ \E i \in 1..MaxLimit : Download(i)
    \/ \E i \in 1..MaxLimit : TakeResult(i)
    \/ SaveImageFile
    \/ AppendRecord
    \/ Return

\* The crawler driven by a caller that follows the returned cursors.  Every
\* request carries a timeout and the pool threads run, so a step that can
\* be taken is taken.
ChainNext ==
    \/ \E lim \in 0..MaxLimit, cursor \in CursorInputs \cup {StrOf(LastPage + 2)} :
         ChainStart(lim, cursor)
    \/ CrawlStep

ChainSpec == Init /\ [][ChainNext]_vars /\ WF_vars(CrawlStep)

\* The crawler invoked again and again, with any cursor, by a caller that
\* notes the failed downloads
RetryNext ==
    \/ \E lim \in 0..MaxLimit, cursor \in CursorInputs : RetryStart(lim, cursor)
    \/ CrawlStep

RetrySpec == Init /\ [][RetryNext]_vars

\* ------------------------------------------------------------ properties
\* The records of the well-formed lines of a manifest, in order: what a
\* reader that skips every unparseable line returns.
RECURSIVE RecordsOf(_)
RecordsOf(lines) ==
    IF lines = <<>> THEN <<>>
    ELSE IF Parses(Head(lines)) THEN <<from_dict(Head(lines))>> \o RecordsOf(Tail(lines))
    ELSE RecordsOf(Tail(lines))

WellFormedRecords(file) == RecordsOf(FileLines(file.data))

IdsOf(items) == {items[k].id : k \in 1..Len(items)}

DistinctIds(items) ==
    \A i, j \in 1..Len(items) : items[i].id = items[j].id => i = j

\* The queue of the invocation: the items collected, then submitted
Queue == [k \in 1..Len(futures) |-> futures[k].item]

\* C1: after any sequence of crawl invocations run one at a time, from an
\* absent manifest on, the manifest of the source holds no id twice.
C1_NoDuplicateIds == DistinctIds(WellFormedRecords(manifest[source_id]))

\* C1 witness: a second invocation has staged an item after a page listed an
\* id the first invocation had staged.
C1_Witness ==
    /\ runs = 2
    /\ pc = "done"
    /\ items_crawled > 0
    /\ seed_ids \cap candidates # {}
    /\ Len(WellFormedRecords(manifest[source_id])) >= 2

\* The final line of the file is cut short (no "\n") and does not parse
TruncatedTail(file) ==
    /\ file.exists
    /\ file.data # <<>>
    /\ file.data[Len(file.data)][1] # "\n"
    /\ ~Parses(FileLines(file.data)[Len(FileLines(file.data))])

\* C2: read_manifest on a manifest whose final line is truncated and does
\* not parse returns the earlier well-formed records, in order, and raises
\* nothing.
C2_ReadSkipsTruncatedLine ==
    (last.op = "read_manifest" /\ TruncatedTail(manifest[last.src]))
        => (last.ok /\ last.items = WellFormedRecords(manifest[last.src]))

\* C3: no crawl invocation leaves by an exception, whatever the cursor and
\* the manifest.
C3_CrawlNeverAborts == pc # "aborted"

\* C4: the download queue never holds an id twice nor an id the manifest
\* held at seeding time, and every queued id is in the in-memory set as soon
\* as it is queued.
C4_QueueIdsNewAndDistinct ==
    /\ DistinctIds(all_items)
    /\ IdsOf(all_items) \cap seed_ids = {}
    /\ existing_ids = seed_ids \cup IdsOf(all_items)
    /\ DistinctIds(Queue)
    /\ IdsOf(Queue) \subseteq IdsOf(all_items)

\* C4 witness: the queue is built from more pages with candidates than
\* there are candidate ids, so an id was listed again on a later page of the
\* same invocation, and it is queued once.
C4_Witness ==
    /\ pc = "wait"
    /\ Len(futures) >= 1
    /\ seed_ids = {}
    /\ Cardinality(page_log.items) > Cardinality(candidates)

FetchedOk == page_log.items \cup page_log.empty

\* The pages of this invocation that yielded at least one candidate
FetchedWithItems == page_log.items

\* The lowest page at or after the start page that is not in pages
LowestOutside(pages) ==
    CHOOSE p \in start_page..(start_page + Cardinality(pages)) :
        /\ p \notin pages
        /\ \A q \in start_page..(p - 1) : q \in pages

AppendedLines ==
    FileLines(SubSeq(manifest[source_id].data,
                     Len(seed_manifest.file.data) + 1, Len(manifest[source_id].data)))

\* C7: the returned count is the number of lines the invocation appended and
\* the number of downloads that returned data; a failed download leaves no
\* line and no file; when every download failed the manifest and the images
\* are as they were.
C7_CountIsAppendedIsSucceeded ==
    pc = "done" =>
        /\ ret.items_crawled = Len(AppendedLines)
        /\ ret.items_crawled = Cardinality(Succeeded)
        /\ \A k \in 1..Len(AppendedLines) : Parses(AppendedLines[k])
        /\ IdsOf(RecordsOf(AppendedLines)) = {futures[i].item.id : i \in Succeeded}
        /\ \A i \in (1..Len(futures)) \ Succeeded :
             LET name == FileName(futures[i].item.id, futures[i].item.format) IN
             FileExists(images[source_id], name) => FileExists(seed_manifest.files, name)
        /\ Succeeded = {} =>
             /\ manifest[source_id] = seed_manifest.file
             /\ images[source_id] = seed_manifest.files

\* C7 witness: an invocation returned after one download failed and one
\* succeeded
C7_Witness ==
    /\ pc = "done"
    /\ Len(futures) = 2
    /\ Cardinality(Succeeded) = 1

\* The lesser of two numbers
Min(a, b) == IF a < b THEN a ELSE b

\* C8: when every download succeeds the returned count is min(limit, number
\* of distinct not yet staged ids among the candidates of the fetched pages),
\* the manifest gains that many lines, with distinct ids, and never more than
\* limit.
C8_CountIsMinLimitNew ==
    (pc = "done" /\ Succeeded = 1..Len(futures)) =>
        /\ ret.items_crawled = Min(limit, Cardinality(candidates \ seed_ids))
        /\ Len(AppendedLines) = ret.items_crawled
        /\ Cardinality(IdsOf(RecordsOf(AppendedLines))) = ret.items_crawled
        /\ Len(AppendedLines) <= limit

\* C8 witness: every download succeeded and the pages held more new ids
\* than limit
C8_Witness ==
    /\ pc = "done"
    /\ Succeeded = 1..Len(futures)
    /\ ret.items_crawled = limit
    /\ limit >= 1
    /\ Cardinality(candidates \ seed_ids) > limit

\* Every line of the manifest is a complete record followed by "\n"
WellFormed(file) ==
    /\ file.data # <<>> => file.data[Len(file.data)][1] = "\n"
    /\ \A k \in 1..Len(FileLines(file.data)) : Parses(FileLines(file.data)[k])

\* C9: append_manifest(source, r) on a well-formed manifest makes
\* read_manifest(source) return what it returned before, followed by r with
\* every field as given.
C9_AppendThenRead ==
    [][\A s \in Sources :
         (last'.op = "append_manifest" /\ last'.src = s /\ WellFormed(manifest[s]))
            => /\ read_manifest(manifest[s]).ok
               /\ read_manifest(manifest'[s]) =
                    Returned(Append(read_manifest(manifest[s]).items, last'.items[1]))]_vars

\* C9 witness: a record was appended to a well-formed manifest that already
\* held a record
C9_Witness ==
    /\ last.op = "append_manifest"
    /\ WellFormed(manifest[last.src])
    /\ Len(WellFormedRecords(manifest[last.src])) >= 2

\* The sum of the sizes of the image files the items name, a missing file
\* counting for nothing
RECURSIVE PresentBytes(_, _, _)
PresentBytes(items, files, k) ==
    IF k = 0 THEN 0
    ELSE PresentBytes(items, files, k - 1)
         + (IF \E f \in files : f[1] = items[k].filename
            THEN (CHOOSE f \in files : f[1] = items[k].filename)[2] ELSE 0)

\* C10: get_stats does not fail over a missing image file: it counts every
\* manifest record in total_images and in the category and format
\* histograms, and sums the sizes of the image files that exist.
C10_StatsCountAllSumPresent ==
    (last.op = "get_stats" /\ read_manifest(manifest[last.src]).ok) =>
        LET items == read_manifest(manifest[last.src]).items
            files == images[last.src]
        IN  /\ last.ok
            /\ last.stats.total_images = Len(items)
            /\ DOMAIN last.stats.categories = {items[k].category : k \in 1..Len(items)}
            /\ \A c \in DOMAIN last.stats.categories :
                 last.stats.categories[c] =
                    Cardinality({k \in 1..Len(items) : items[k].category = c})
            /\ DOMAIN last.stats.formats = {items[k].format : k \in 1..Len(items)}
            /\ \A f \in DOMAIN last.stats.formats :
                 last.stats.formats[f] =
                    Cardinality({k \in 1..Len(items) : items[k].format = f})
            /\ last.stats.total_size_bytes = PresentBytes(items, files, Len(items))

\* C10 witness: stats of a manifest of two records, the image file of one
\* present and the image file of the other missing
C10_Witness ==
    /\ last.op = "get_stats"
    /\ last.ok
    /\ last.stats.total_images = 2
    /\ last.stats.total_size_bytes > 0
    /\ \E k \in 1..2 :
         ~FileExists(images[last.src], read_manifest(manifest[last.src]).items[k].filename)

C12_SiblingsStaged ==
    pc = "done" =>
        \A i \in Succeeded :
            /\ <<FileName(futures[i].item.id, futures[i].item.format), futures[i].size>>
                  \in images[source_id]
            /\ \E k \in 1..Len(AppendedLines) :
                  /\ Parses(AppendedLines[k])
                  /\ from_dict(AppendedLines[k]).id = futures[i].item.id
                  /\ from_dict(AppendedLines[k]).filename
                        = FileName(futures[i].item.id, futures[i].item.format)

\* C12 witness: the download of the first queued item failed and the second
\* item was staged
C12_Witness ==
    /\ pc = "done"
    /\ Len(futures) >= 2
    /\ 1 \in Failed
    /\ 2 \in Succeeded

\* C13: once the fetch of a page has failed, the fetch phase is over and no
\* page after the failed one was or will be requested; every candidate
\* collected from the pages before it is submitted for download, and when
\* the invocation returns each of them was downloaded and, its download
\* having returned data, has its image file and its record.
C13_PageFailureKeepsQueue ==
    page_log.failed # {} =>
        /\ pc # "fetch"
        /\ page_log.failed = {current_page}
        /\ \A p \in page_log.items \cup page_log.empty : p < current_page
        /\ Len(all_items) <= limit
        /\ Queue = all_items
        /\ pc = "done" =>
             \A i \in 1..Len(all_items) :
                /\ futures[i].done
                /\ i \in Succeeded =>
                     /\ FileExists(images[source_id],
                                   FileName(all_items[i].id, all_items[i].format))
                     /\ all_items[i].id \in IdsOf(RecordsOf(AppendedLines))

\* C13 witness: the page after the start page failed; the candidate the
\* start page had given was downloaded and staged
C13_Witness ==
    /\ pc = "done"
    /\ page_log.failed = {start_page + 1}
    /\ Len(all_items) = 1
    /\ limit > 1
    /\ Succeeded = {1}

\* C14: clean(s) touches source s only.  On a source without a directory it
\* changes nothing; otherwise the manifest and the images of s are gone,
\* read_manifest(s) and get_existing_ids(s) are empty and list_sources does
\* not name s.  The manifest, the images and the directory of every other
\* source are as before.
C14_CleanOnlyThatSource ==
    [][last'.op = "clean" =>
         LET s == last'.src IN
         /\ s \notin dirs => (dirs' = dirs /\ manifest' = manifest /\ images' = images)
         /\ s \notin dirs'
         /\ ~manifest'[s].exists
         /\ images'[s] = {}
         /\ read_manifest(manifest'[s]) = Returned(<<>>)
         /\ get_existing_ids(manifest'[s]) = {}
         /\ s \notin list_sources'
         /\ \A t \in Sources \ {s} :
              /\ manifest'[t] = manifest[t]
              /\ images'[t] = images[t]
              /\ (t \in dirs') = (t \in dirs)
              /\ (t \in list_sources') = (t \in list_sources)]_vars

\* C14 witness: a source that existed was cleaned while another source holds
\* a manifest and an image
C14_Witness ==
    /\ last.op = "clean"
    /\ last.found
    /\ \E t \in Sources \ {last.src} : manifest[t].exists /\ images[t] # {}

\* The pages this invocation has requested
Requested == page_log.items \cup page_log.empty \cup page_log.failed

\* C15: the pages are requested one at a time, consecutively from the start
\* page up.  A page is requested only while the phase is on, fewer than limit
\* new items are collected and no requested page has failed or come back
\* without candidates; while those hold the phase does not end of itself.  A
\* page with candidates keeps the phase on, whether or not it added an item.
C15_FetchOrder ==
    [][/\ Requested' = start_page'..(start_page' + Cardinality(Requested') - 1)
       /\ current_page' = start_page' + Cardinality(page_log'.items)
       /\ (page_log' # page_log /\ page_log' # NoPages) =>
             /\ pc = "fetch"
             /\ Len(all_items) < limit
             /\ page_log.empty \cup page_log.failed = {}
             /\ Requested' = Requested \cup {current_page}
             /\ current_page \notin Requested
             /\ (pc' = "fetch") = (page_log'.items # page_log.items)
       /\ (pc = "fetch" /\ pc' = "wait") =>
             \/ ~(Len(all_items) < limit)
             \/ page_log'.empty \cup page_log'.failed # {}]_vars

\* C15 witness: two pages in a row listed only ids the manifest holds, and
\* the fetch phase is still on
C15_Witness ==
    /\ pc = "fetch"
    /\ limit > 0
    /\ Cardinality(page_log.items) >= 2
    /\ all_items = <<>>

\* a is a prefix of b
IsPrefix(a, b) == Len(a) <= Len(b) /\ SubSeq(b, 1, Len(a)) = a

\* C16: at every point of an invocation the records of the manifest start
\* with the records the manifest held when the invocation began, in the same
\* order and unchanged.
C16_RecordsOnlyAppended ==
    pc \in {"fetch", "wait", "save", "append", "done"} =>
        IsPrefix(WellFormedRecords(seed_manifest.file),
                 WellFormedRecords(manifest[source_id]))

\* C17: the image is written before the record.  Every record the running
\* invocation has appended is the record of a future that returned data,
\* names the file {id}.{format}, and that file is in the images directory
\* with the bytes downloaded.  At any time, also after a kill at any step,
\* every record of the manifest has its image file.
C17_ImageBeforeRecord ==
    /\ \A k \in 1..Len(WellFormedRecords(manifest[source_id])) :
         FileExists(images[source_id], WellFormedRecords(manifest[source_id])[k].filename)
    /\ pc \in {"wait", "save", "append", "done"} =>
         \A k \in 1..Len(RecordsOf(AppendedLines)) :
            LET r == RecordsOf(AppendedLines)[k] IN
            /\ r.filename = FileName(r.id, r.format)
            /\ \E i \in Succeeded :
                 /\ futures[i].item.id = r.id
                 /\ <<r.filename, futures[i].size>> \in images[source_id]

\* C17 witness: the invocation was killed between the two steps of an item,
\* after it had staged another: an image file without a record
C17_Witness ==
    /\ pc = "killed"
    /\ Len(WellFormedRecords(manifest[source_id])) >= 1
    /\ WellFormed(manifest[source_id])
    /\ \E f \in images[source_id] :
         \A k \in 1..Len(WellFormedRecords(manifest[source_id])) :
            WellFormedRecords(manifest[source_id])[k].filename # f[1]

\* C18: the records of an invocation are in the order in which the loop over
\* as_completed took the results.  The record of the item in hand is put
\* after every record of the invocation; the items that were taken before it
\* and returned data all have their record by then, and an item whose
\* download has not completed has none.
C18_RecordsInCompletionOrder ==
    [][(pc = "append" /\ pc' = "wait") =>
         LET before == RecordsOf(AppendedLines)
             record == StagedItem(futures[cur].item, Now)
         IN  /\ manifest'[source_id].data = manifest[source_id].data \o ManifestLine(record)
             /\ Parses(JsonDumps(record)) /\ from_dict(JsonDumps(record)) = record
             /\ \A i \in (processed \cap Succeeded) \ {cur} :
                   futures[i].item.id \in IdsOf(before)
             /\ \A i \in 1..Len(futures) :
                   ~futures[i].done => futures[i].item.id \notin IdsOf(before) \cup {record.id}]_vars

\* C18 witness: the item discovered second was recorded first
C18_Witness ==
    /\ pc = "done"
    /\ Len(futures) >= 2
    /\ Len(RecordsOf(AppendedLines)) >= 2
    /\ RecordsOf(AppendedLines)[1].id = futures[2].item.id
    /\ RecordsOf(AppendedLines)[2].id = futures[1].item.id

\* The candidates of this invocation that the manifest does not hold
Unstaged == candidates \ IdsOf(WellFormedRecords(manifest[source_id]))

\* C19: when an invocation returns a cursor, every candidate it found and
\* did not stage lies on a page at or after that cursor.  A candidate was
\* found on one of the pages that yielded candidates to the invocation, so
\* one of those pages is at or after the cursor.
C19_UnstagedAtOrAfterCursor ==
    (pc = "done" /\ ret.next_cursor # NoCursor) =>
        \A x \in Unstaged : \E p \in page_log.items : p >= IntOf(ret.next_cursor)

\* An invocation is running
Running == pc \in {"fetch", "wait", "save", "append"}

\* C20: with LastPage listing pages that hold images, every invocation ends,
\* and a caller that follows the returned cursors makes at most LastPage + 1
\* invocations: a returned cursor is a page after the start page and at most
\* the page after the last page with images, and an invocation started after
\* the last page with images returns no cursor.
C20_ChainTerminates ==
    /\ [](runs <= LastPage + 1)
    /\ []((pc = "done" /\ ret.next_cursor # NoCursor) =>
             /\ IntOf(ret.next_cursor) > start_page
             /\ IntOf(ret.next_cursor) <= LastPage + 1)
    /\ []((pc = "done" /\ start_page > LastPage) => ret.next_cursor = NoCursor)
    /\ (Running ~> (pc \in {"done", "aborted"}))

\* C20 witness: the longest chain has ended: invocation LastPage + 1, started
\* from the cursor of the one before, returned no cursor
C20_Witness ==
    /\ pc = "done"
    /\ runs = LastPage + 1
    /\ start_page = LastPage + 1
    /\ ret.next_cursor = NoCursor

\* C21: the pool threads only download.  A step of a worker changes the
\* future it ran and nothing else: not the manifest, not the images, not
\* items_crawled.  The image of an item is written, its line appended and
\* items_crawled incremented by the coordinating thread alone, for the one
\* item it holds, in that order; the line goes to the end of the file in one
\* piece, so every line the invocation has appended is one complete record
\* and there are items_crawled of them.
C21_OnlyCoordinatorWrites ==
    /\ [](pc \in {"wait", "save", "append", "done"} =>
             /\ Len(AppendedLines) = items_crawled
             /\ \A k \in 1..Len(AppendedLines) : Parses(AppendedLines[k])
             /\ pc \in {"save", "append"} => (cur \in processed /\ HasResult(futures[cur])))
    /\ [][/\ (InPool /\ pc' # "killed" /\ futures' # futures) =>
               /\ manifest' = manifest
               /\ images' = images
               /\ items_crawled' = items_crawled
               /\ pc' = pc /\ cur' = cur /\ processed' = processed
          /\ (InPool /\ pc' # "killed" /\ images' # images) =>
               /\ pc = "save" /\ pc' = "append"
               /\ futures' = futures /\ manifest' = manifest
          /\ (InPool /\ pc' # "killed" /\ manifest' # manifest) =>
               /\ pc = "append" /\ pc' = "wait"
               /\ futures' = futures /\ images' = images
               /\ manifest'[source_id].data = manifest[source_id].data
                     \o ManifestLine(StagedItem(futures[cur].item, Now))
               /\ items_crawled' = items_crawled + 1
          /\ (InPool /\ pc' # "killed" /\ items_crawled' # items_crawled) =>
               /\ pc = "append"
               /\ manifest' # manifest]_vars

\* C21 witness: the coordinating thread is about to append the line of one
\* item while the download of another item is still running
C21_Witness ==
    /\ pc = "append"
    /\ \E i \in 1..Len(futures) : i # cur /\ ~futures[i].done

====
